---------------------------- MODULE Spec2Model ----------------------------
(***************************************************************************)
(* A model of the cloud-server Express application (src/index.js).         *)
(*                                                                         *)
(* The process is a single-threaded event loop.  A connection slot holds   *)
(* one request from the moment it arrives until the connection is closed.  *)
(* Dispatch runs the whole synchronous middleware chain of index.js for    *)
(* one request (cors, body parsers, static, routes, error handler, 404     *)
(* handler); the control routes only arm a timer, whose callback           *)
(* (TimerFire) sends the response later.  Time is the number of            *)
(* milliseconds since the process started.                                 *)
(*                                                                         *)
(* Spec has one client send requests of every kind while the other         *)
(* connections carry control requests; LoadSpec and FairSpec have every    *)
(* connection carry health checks and control requests; SpecStats and      *)
(* SpecUptime have GET /api/stats answered on hosts of many memory sizes   *)
(* and uptimes.                                                            *)
(*                                                                         *)
(* Not modelled: the request log morgan writes, the headers helmet and     *)
(* cors add, compression, console.error's output, and the random           *)
(* cpu/disk/network fields of the stats body.                              *)
(***************************************************************************)
EXTENDS Integers, Sequences, FiniteSets, TLC

VARIABLES
    env,          \* process.env.NODE_ENV
    publicFiles,  \* the files under the public directory
    now,          \* milliseconds since the process started
    conn,         \* connection slot -> the request it holds and its progress
    timers,       \* connection slot -> due time of its setTimeout, or NoTimer
    responses,    \* connection slot -> the responses written to it, in order
    console,      \* the lines written with console.log
    exited,       \* process.exit was called
    exitCode      \* its argument, or NoExit

vars == <<env, publicFiles, now, conn, timers, responses, console, exited, exitCode>>

---------------------------------------------------------------------------
(* Bounds of the model *)

MaxConn == 2          \* connection slots (requests in flight at once)
MaxTime == 3000       \* the clock stops here
TickMs == 1000        \* granularity of the clock
MaxMem == 12          \* host memory sizes, in half-MiB units
MaxDays == 2          \* host uptimes reach MaxDays days and more

(* Program constants *)

PORT == 3000
StartDelay == 1000
StopDelay == 1000
RestartDelay == 2000
SecondsPerHour == 3600
HoursPerDay == 24
SecondsPerMinute == 60
BytesPerKiB == 1024

NoTimer == -1
NoExit == -1

Conns == 1..MaxConn

---------------------------------------------------------------------------
(* Requests *)

Methods == {"GET", "HEAD", "POST", "OPTIONS"}

ControlPaths == {"/api/control/start", "/api/control/stop", "/api/control/restart"}

Paths == {"/", "/api/health", "/api/stats", "/app.js", "/non-existent-route"}
            \cup ControlPaths

\* "none": no body; "json": a well-formed application/json body;
\* "malformed": a body declared application/json that does not parse.
Bodies == {"none", "json", "malformed"}

RequestKinds ==
    [method : Methods, path : Paths, body : {"none"}]
        \cup [method : {"POST"}, path : Paths, body : {"json", "malformed"}]
        \cup { [method |-> "GET", path |-> "/api/health", body |-> "malformed"],
               [method |-> "OPTIONS", path |-> "/api/control/start", body |-> "malformed"] }

\* The control requests other clients have pending while one client sends
\* requests of every kind.
BackgroundKinds == [method : {"POST"}, path : ControlPaths, body : {"none"}]

\* The requests of clients that poll the health check and use the control
\* routes.
LoadKinds ==
    [method : {"POST"}, path : ControlPaths, body : {"none"}]
        \cup { [method |-> "POST", path |-> "/api/control/start", body |-> "json"],
               [method |-> "GET", path |-> "/api/health", body |-> "none"] }

NoError == [message |-> "", status |-> 0]
NoOs == [totalmem |-> 0, freemem1 |-> 0, freemem2 |-> 0, uptime |-> 0]
NoReq == [method |-> "", path |-> "", body |-> ""]

\* armedAt: when the control handler of the request ran and armed its timer.
Idle == [st |-> "idle", req |-> NoReq, armedAt |-> 0, err |-> NoError, os |-> NoOs]

---------------------------------------------------------------------------
(* What the os module and the file system may return *)

HalfMiB == 512 * BytesPerKiB

\* os.totalmem(), and the two readings of os.freemem() the stats handler
\* takes (lines 76 and 77), in bytes; os.uptime() in seconds.
MemReads ==
    { [totalmem |-> t * HalfMiB, freemem1 |-> f1 * HalfMiB, freemem2 |-> f2 * HalfMiB,
       uptime |-> 0] :
        t \in 1..MaxMem, f1 \in 0..MaxMem, f2 \in 0..MaxMem }

OsReadsWideMem ==
    { o \in MemReads : o.freemem1 <= o.totalmem /\ o.freemem2 <= o.totalmem
                       /\ (o.freemem1 = o.freemem2 \/ o.freemem1 = o.totalmem) }

UptimeSamples ==
    { ((d * HoursPerDay + h) * SecondsPerHour) + m * SecondsPerMinute + s :
        d \in 0..MaxDays, h \in 0..(HoursPerDay - 1), m \in {0, 1, 2, 30, 59},
        s \in {0, 5, 59} }

OsReadsWideUptime ==
    { [totalmem |-> 16 * HalfMiB, freemem1 |-> 6 * HalfMiB, freemem2 |-> 6 * HalfMiB,
       uptime |-> u] : u \in UptimeSamples }

OsReads ==
    { [totalmem |-> 16 * HalfMiB, freemem1 |-> 7 * HalfMiB, freemem2 |-> 6 * HalfMiB,
       uptime |-> 90000],
      [totalmem |-> 3 * HalfMiB, freemem1 |-> 1 * HalfMiB, freemem2 |-> 1 * HalfMiB,
       uptime |-> 59] }

PublicDirs == { {}, {"/index.html", "/app.js"} }

NodeEnvs == {"production", "development"}

---------------------------------------------------------------------------
(* formatUptime, lines 173-184 *)

\* Clause with the plural decided by n != 1.
ClausePluralUnlessOne(n, unit) ==
    ToString(n) \o " " \o unit \o (IF n # 1 THEN "s" ELSE "")

\* `${n} unit${n > 1 ? 's' : ''}`
Clause(n, unit) == ToString(n) \o " " \o unit \o (IF n > 1 THEN "s" ELSE "")

\* Math.floor(seconds / (3600 * 24)); seconds is taken whole: the floors of
\* lines 174-176 give the same result for a fractional number of seconds.
UptimeDays(seconds) == seconds \div (SecondsPerHour * HoursPerDay)

\* UptimeHours without the reduction modulo one day.
UptimeHoursTotal(seconds) == seconds \div SecondsPerHour

UptimeHours(seconds) == (seconds % (SecondsPerHour * HoursPerDay)) \div SecondsPerHour

UptimeMinutes(seconds) == (seconds % SecondsPerHour) \div SecondsPerMinute

formatUptime(seconds) ==
    LET days == UptimeDays(seconds)
        hours == UptimeHours(seconds)
        minutes == UptimeMinutes(seconds)
        r1 == IF days > 0 THEN Clause(days, "day") \o ", " ELSE ""
        r2 == IF hours > 0 THEN r1 \o Clause(hours, "hour") \o ", " ELSE r1
    IN  r2 \o Clause(minutes, "minute")

---------------------------------------------------------------------------
(* The memory block of GET /api/stats, lines 74-78 *)

\* The whole percentages k for which the double-precision evaluation of
\* (1 - free/total) * 100 falls just below k although the exact value is k
\* (for instance free/total = 0.9 gives 9.999999999999998).  For every other
\* ratio, and for every total below 2^44 bytes, the double and the exact
\* value have the same floor.
DoubleUndershoot == {7, 8, 9, 10, 11, 19, 20, 21, 22, 32, 33, 44, 45, 66}

\* MemoryUsage with Math.round in place of Math.floor (the double-precision
\* value rounds to the same integer as the exact one).
MemoryUsageRounded(free, total) ==
    (2 * 100 * (total - free) + total) \div (2 * total)

\* Math.floor((1 - freemem / totalmem) * 100)
MemoryUsage(free, total) ==
    LET num == 100 * (total - free)
        q == num \div total
    IN  IF num % total = 0 /\ q \in DoubleUndershoot THEN q - 1 ELSE q

\* Math.floor(bytes / 1024 / 1024)
MegaBytes(bytes) == (bytes \div BytesPerKiB) \div BytesPerKiB

MemoryStats(os) ==
    [total |-> MegaBytes(os.totalmem),
     free |-> MegaBytes(os.freemem1),
     usage |-> MemoryUsage(os.freemem2, os.totalmem)]

---------------------------------------------------------------------------
(* Responses *)

NoBody == [empty |-> TRUE]

\* res.json / res.sendFile: a HEAD request is answered with the status and
\* headers only.
Wire(req, status, body) ==
    [status |-> status, body |-> IF req.method = "HEAD" THEN NoBody ELSE body]

\* cors(), line 38: an OPTIONS request is a preflight, ended with 204 and no
\* body before any later middleware runs.
CorsPreflight == [status |-> 204, body |-> NoBody]

\* express.json(), line 41: the error it passes to next() for a body that
\* does not parse.
JsonParseError ==
    [message |-> "Unexpected token i in JSON at position 2", status |-> 400]

\* res.sendFile, line 56: the error it passes to next() when the file is
\* missing.
SendFileError ==
    [message |-> "ENOENT: no such file or directory, stat 'public/index.html'",
     status |-> 404]

\* express.static, line 50: the file a GET or HEAD of path is served with.
StaticTarget(path) == IF path = "/" THEN "/index.html" ELSE path

StaticHit(req, files) ==
    req.method \in {"GET", "HEAD"} /\ StaticTarget(req.path) \in files

\* app.get(path, ...) also answers HEAD.
RouteGet(req, path) == req.method \in {"GET", "HEAD"} /\ req.path = path

RoutePost(req, paths) == req.method = "POST" /\ req.path \in paths

\* ErrorHandler without the production branch.
ErrorHandlerVerbose(err, nodeEnv) ==
    [status |-> 500,
     body |-> [error |-> "Something went wrong!", message |-> err.message]]

\* Error handling middleware, lines 145-151.
ErrorHandler(err, nodeEnv) ==
    [status |-> 500,
     body |-> [error |-> "Something went wrong!",
               message |-> IF nodeEnv = "production" THEN "Server error"
                           ELSE err.message]]

\* NotFoundHandler with a message that leaves the path out.
NotFoundHandlerNoPath(path) ==
    [status |-> 404,
     body |-> [error |-> "Not Found",
               message |-> "The requested resource was not found"]]

\* 404 handler, lines 154-159.
NotFoundHandler(path) ==
    [status |-> 404,
     body |-> [error |-> "Not Found",
               message |-> "The requested resource at " \o path \o " was not found"]]

\* HealthHandler with the uptime subtraction the wrong way round.
HealthHandlerNegative(t) ==
    [status |-> 200, body |-> [status |-> "OK", timestamp |-> t, uptime |-> 0 - t]]

\* GET /api/health, lines 60-66.  uptime is process.uptime(), kept in
\* milliseconds here.
HealthHandler(t) ==
    [status |-> 200, body |-> [status |-> "OK", timestamp |-> t, uptime |-> t]]

\* GET /api/stats, lines 69-96.
StatsHandler(os, t) ==
    [status |-> 200,
     body |-> [memory |-> MemoryStats(os),
               uptime |-> [server |-> formatUptime(t \div 1000),
                           system |-> formatUptime(os.uptime)]]]

\* ControlDelay with the restart route given the delay of the other two.
ControlDelayUniform(path) == StartDelay

\* The delay each control route passes to setTimeout.
ControlDelay(path) ==
    CASE path = "/api/control/start" -> StartDelay
      [] path = "/api/control/stop" -> StopDelay
      [] path = "/api/control/restart" -> RestartDelay

ControlMessage(path) ==
    CASE path = "/api/control/start" -> "Server started successfully"
      [] path = "/api/control/stop" -> "Server stopped successfully"
      [] path = "/api/control/restart" -> "Server restarted successfully"

\* The body the timer callback of a control route sends.
ControlBody(path, t) ==
    [success |-> TRUE, message |-> ControlMessage(path), timestamp |-> t]

\* The middleware chain in the order of the app.use/app.get/app.post calls:
\* what one request ends with.  "defer" is a control route arming its timer.
Outcome(req, os, files, nodeEnv, t) ==
    IF req.method = "OPTIONS" THEN
        [defer |-> FALSE, err |-> NoError, resp |-> CorsPreflight]
    ELSE IF req.body = "malformed" THEN
        [defer |-> FALSE, err |-> JsonParseError,
         resp |-> ErrorHandler(JsonParseError, nodeEnv)]
    ELSE IF StaticHit(req, files) THEN
        [defer |-> FALSE, err |-> NoError,
         resp |-> [status |-> 200, body |-> [file |-> StaticTarget(req.path)]]]
    ELSE IF RouteGet(req, "/") THEN
        [defer |-> FALSE, err |-> SendFileError,
         resp |-> ErrorHandler(SendFileError, nodeEnv)]
    ELSE IF RouteGet(req, "/api/health") THEN
        [defer |-> FALSE, err |-> NoError, resp |-> HealthHandler(t)]
    ELSE IF RouteGet(req, "/api/stats") THEN
        [defer |-> FALSE, err |-> NoError, resp |-> StatsHandler(os, t)]
    ELSE IF RoutePost(req, ControlPaths) THEN
        [defer |-> TRUE, err |-> NoError, resp |-> [status |-> 0, body |-> NoBody]]
    ELSE
        [defer |-> FALSE, err |-> NoError, resp |-> NotFoundHandler(req.path)]

---------------------------------------------------------------------------
(* The state machine *)

StartupLines ==
    << "Server running on port " \o ToString(PORT),
       "http://localhost:" \o ToString(PORT),
       "Press Ctrl+C to stop" >>

Init ==
    /\ env \in NodeEnvs
    /\ publicFiles \in PublicDirs
    /\ now = 0
    /\ conn = [r \in Conns |-> Idle]
    /\ timers = [r \in Conns |-> NoTimer]
    /\ responses = [r \in Conns |-> << >>]
    /\ console = StartupLines
    /\ exited = FALSE
    /\ exitCode = NoExit

IsControl(req) == RoutePost(req, ControlPaths) /\ req.body # "malformed"

\* A client connects and sends request k on connection r.
Arrive(r, k) ==
    /\ ~exited
    /\ conn[r].st = "idle"
    /\ IsControl(k) => now + ControlDelay(k.path) <= MaxTime
    /\ conn' = [conn EXCEPT ![r] = [Idle EXCEPT !.st = "queued", !.req = k]]
    /\ UNCHANGED <<env, publicFiles, now, timers, responses, console, exited, exitCode>>

\* ControlHandler waiting in a loop until the delay has passed, then
\* answering, instead of arming a timer.
ControlHandlerBlocking(r, req) ==
    /\ now' = now + ControlDelay(req.path)
    /\ responses' = [responses EXCEPT
                       ![r] = Append(@, Wire(req, 200, ControlBody(req.path, now')))]
    /\ conn' = [conn EXCEPT ![r].st = "done", ![r].armedAt = now]
    /\ UNCHANGED timers

\* The route handlers of lines 103-142: arm the timer and return.
ControlHandler(r, req) ==
    /\ timers' = [timers EXCEPT ![r] = now + ControlDelay(req.path)]
    /\ conn' = [conn EXCEPT ![r].st = "waiting", ![r].armedAt = now]
    /\ UNCHANGED <<now, responses>>

\* The event loop takes the request of slot r through the middleware chain.
Dispatch(r, os) ==
    /\ ~exited
    /\ conn[r].st = "queued"
    /\ LET req == conn[r].req
           out == Outcome(req, os, publicFiles, env, now)
       IN  IF out.defer
           THEN ControlHandler(r, req)
           ELSE /\ responses' = [responses EXCEPT
                                   ![r] = Append(@, Wire(req, out.resp.status, out.resp.body))]
                /\ conn' = [conn EXCEPT ![r].st = "done",
                                        ![r].err = out.err,
                                        ![r].os = IF RouteGet(req, "/api/stats")
                                                     /\ out.err = NoError
                                                     /\ ~StaticHit(req, publicFiles)
                                                  THEN os ELSE NoOs]
                /\ UNCHANGED <<now, timers>>
    /\ UNCHANGED <<env, publicFiles, console, exited, exitCode>>

\* The callback given to setTimeout runs, not before its delay has passed.
TimerFire(r) ==
    /\ ~exited
    /\ conn[r].st = "waiting"
    /\ timers[r] # NoTimer
    /\ now >= timers[r]
    /\ responses' = [responses EXCEPT
                       ![r] = Append(@, Wire(conn[r].req, 200,
                                             ControlBody(conn[r].req.path, now)))]
    /\ timers' = [timers EXCEPT ![r] = NoTimer]
    /\ conn' = [conn EXCEPT ![r].st = "done"]
    /\ UNCHANGED <<env, publicFiles, now, console, exited, exitCode>>

\* The client has its response and the connection is closed.
Close(r) ==
    /\ ~exited
    /\ conn[r].st = "done"
    /\ conn' = [conn EXCEPT ![r] = Idle]
    /\ responses' = [responses EXCEPT ![r] = << >>]
    /\ UNCHANGED <<env, publicFiles, now, timers, console, exited, exitCode>>

\* Time passes, TickMs at a time.  The clock stops at MaxTime (its last step
\* may be shorter), and does not pass a point from which a queued control
\* request could no longer have its delay.
NextTime == IF now + TickMs <= MaxTime THEN now + TickMs ELSE MaxTime

Tick ==
    /\ ~exited
    /\ now < MaxTime
    /\ \A r \in Conns :
          (conn[r].st = "queued" /\ IsControl(conn[r].req))
              => NextTime + ControlDelay(conn[r].req.path) <= MaxTime
    /\ now' = NextTime
    /\ UNCHANGED <<env, publicFiles, conn, timers, responses, console, exited, exitCode>>

\* Signal exiting with a failure code.
SignalExitFailure(sig) ==
    /\ ~exited
    /\ console' = Append(console, sig \o " received. Shutting down gracefully...")
    /\ exited' = TRUE
    /\ exitCode' = 1
    /\ UNCHANGED <<env, publicFiles, now, conn, timers, responses>>

Signal(sig) ==
    /\ ~exited
    /\ console' = Append(console, sig \o " received. Shutting down gracefully...")
    /\ exited' = TRUE
    /\ exitCode' = 0
    /\ UNCHANGED <<env, publicFiles, now, conn, timers, responses>>

Signals == {"SIGTERM", "SIGINT"}

\* One client sends requests of every kind on connection 1 while the other
\* connections carry control requests.
Next ==
    \/ \E k \in RequestKinds : Arrive(1, k)
    \/ \E r \in Conns \ {1}, k \in BackgroundKinds : Arrive(r, k)
    \/ \E r \in Conns, os \in OsReads : Dispatch(r, os)
    \/ \E r \in Conns : TimerFire(r)
    \/ \E r \in Conns : Close(r)
    \/ Tick
    \/ \E sig \in Signals : Signal(sig)

Spec == Init /\ [][Next]_vars

\* Every connection carries health checks and control requests; a new
\* request takes the lowest free connection.
LowestFree(r) == \A q \in Conns : q < r => conn[q].st # "idle"

NextLoad ==
    \/ \E r \in Conns, k \in LoadKinds : LowestFree(r) /\ Arrive(r, k)
    \/ \E r \in Conns, os \in OsReads : Dispatch(r, os)
    \/ \E r \in Conns : TimerFire(r)
    \/ \E r \in Conns : Close(r)
    \/ Tick
    \/ \E sig \in Signals : Signal(sig)

\* None of these requests is for a file: the public directory is left empty.
InitLoad == Init /\ publicFiles = {}

LoadSpec == InitLoad /\ [][NextLoad]_vars

\* The event loop runs every callback that is ready, and time passes.
FairSpec ==
    /\ InitLoad /\ [][NextLoad]_vars
    /\ WF_vars(Tick)
    /\ \A r \in Conns : WF_vars(TimerFire(r))
    /\ \A r \in Conns : WF_vars(\E os \in OsReads : Dispatch(r, os))

\* Only GET /api/stats is requested, on one connection, on hosts of many
\* memory sizes.
StatsReq == [method |-> "GET", path |-> "/api/stats", body |-> "none"]

NextStats ==
    \/ Arrive(1, StatsReq)
    \/ \E os \in OsReadsWideMem : Dispatch(1, os)
    \/ Close(1)

SpecStats == Init /\ [][NextStats]_vars

\* The same, on hosts of many uptimes.
NextUptime ==
    \/ Arrive(1, StatsReq)
    \/ \E os \in OsReadsWideUptime : Dispatch(1, os)
    \/ Close(1)
    \/ Tick

SpecUptime == Init /\ [][NextUptime]_vars

---------------------------------------------------------------------------
(* Properties *)

Done(r) == conn[r].st = "done"
Req(r) == conn[r].req
Resp(r) == responses[r][1]
Answered(r) == Done(r) /\ Len(responses[r]) = 1

MalformedStart(req) ==
    req.method = "POST" /\ req.path = "/api/control/start" /\ req.body = "malformed"

\* C1: a POST to /api/control/start whose JSON body does not parse is
\* answered with 400 (never 500, never 200), and the start handler and its
\* timer never run for it.
C1_MalformedStartIs400 ==
    \A r \in Conns :
        (conn[r].st \in {"waiting", "done"} /\ MalformedStart(Req(r)))
            => /\ Answered(r)
               /\ Resp(r).status = 400
               /\ timers[r] = NoTimer

\* What the code does with it: the error handler answers 500, and the start
\* handler does not run.
C1_MalformedStartIs500 ==
    \E r \in Conns :
        Answered(r) /\ MalformedStart(Req(r)) /\ Resp(r).status = 500 /\ timers[r] = NoTimer

\* The routes as the interface table lists them, and the static files.
DefinedRoute(req) ==
    \/ req.method = "GET" /\ req.path \in {"/", "/api/health", "/api/stats"}
    \/ req.method = "POST"
         /\ req.path \in {"/api/control/start", "/api/control/stop", "/api/control/restart"}

StaticFile(req) ==
    req.method \in {"GET", "HEAD"}
        /\ (IF req.path = "/" THEN "/index.html" ELSE req.path) \in publicFiles

NotFoundBody(path) ==
    [error |-> "Not Found",
     message |-> "The requested resource at " \o path \o " was not found"]

---------------------------------------------------------------------------

ControlReq(req) ==
    /\ req.method = "POST"
    /\ req.path \in {"/api/control/start", "/api/control/stop", "/api/control/restart"}
    /\ req.body \in {"none", "json"}

FixedMessage(path) ==
    IF path = "/api/control/start" THEN "Server started successfully"
    ELSE IF path = "/api/control/stop" THEN "Server stopped successfully"
    ELSE "Server restarted successfully"

FixedDelay(path) == IF path = "/api/control/restart" THEN 2000 ELSE 1000

\* The one response of a control request: 200, success, its action's message,
\* not before its delay has passed since its handler ran.
ControlAnswer(r) ==
    /\ ControlReq(Req(r))
    /\ Len(responses[r]) = 1
    /\ Resp(r).status = 200
    /\ Resp(r).body.success = TRUE
    /\ Resp(r).body.message = FixedMessage(Req(r).path)
    /\ Resp(r).body.timestamp >= conn[r].armedAt + FixedDelay(Req(r).path)

ControlSafety ==
    \A r \in Conns :
        ControlReq(Req(r)) =>
            /\ conn[r].st \in {"queued", "waiting"} => responses[r] = << >>
            /\ Done(r) => ControlAnswer(r)

\* C3 as stated: every control POST with a well-formed or absent body
\* eventually receives exactly one response, 200 with its action's message,
\* never before its delay has passed.
C3_ControlAlwaysAnswered ==
    /\ []ControlSafety
    /\ \A r \in Conns :
          (conn[r].st = "queued" /\ ControlReq(Req(r))) ~> (Done(r) /\ ControlAnswer(r))

\* C3 as amended: the same, unless the process is terminated by SIGINT or
\* SIGTERM before the response is sent.
C3_ControlAnsweredUnlessExit ==
    /\ []ControlSafety
    /\ \A r \in Conns :
          (conn[r].st = "queued" /\ ControlReq(Req(r)))
              ~> ((Done(r) /\ ControlAnswer(r)) \/ exited)

C3_Witness ==
    \E r, q \in Conns :
        /\ Done(r)
        /\ Req(r) = [method |-> "POST", path |-> "/api/control/restart", body |-> "none"]
        /\ conn[r].armedAt = TickMs
        /\ ControlAnswer(r)
        /\ Resp(r).body.timestamp = TickMs + 2000
        /\ Done(q)
        /\ Req(q) = [method |-> "POST", path |-> "/api/control/start", body |-> "json"]
        /\ ControlAnswer(q)

---------------------------------------------------------------------------

Pending(r) == conn[r].st = "waiting" /\ now < timers[r]

\* C4: a control handler returns at once and leaves every other request as
\* it was; while its delay is pending every queued request can be taken
\* through its handler, and one that is no control request is completed at
\* that same instant; a pending request's timer and its response depend on
\* its own route only.
C4_DelayIsPerRequest ==
    /\ [][ \A r \in Conns :
             (conn[r].st = "queued" /\ ControlReq(Req(r)) /\ conn'[r].st # "queued")
                 => /\ now' = now
                    /\ conn'[r].st = "waiting"
                    /\ responses' = responses
                    /\ timers'[r] = now + FixedDelay(Req(r).path)
                    /\ \A q \in Conns \ {r} : conn'[q] = conn[q] /\ timers'[q] = timers[q]
         ]_vars
    /\ [][ \A r \in Conns :
             (conn[r].st = "waiting" /\ conn'[r].st # "waiting")
                 => /\ timers[r] = conn[r].armedAt + FixedDelay(Req(r).path)
                    /\ now >= timers[r]
                    /\ Resp(r)'.body.message = FixedMessage(Req(r).path)
                    /\ \A q \in Conns \ {r} :
                          /\ conn'[q] = conn[q]
                          /\ timers'[q] = timers[q]
                          /\ responses'[q] = responses[q]
         ]_vars
    /\ [](\A r, q \in Conns :
             (Pending(r) /\ ~exited /\ conn[q].st = "queued")
                 => ENABLED (/\ \E os \in OsReads : Dispatch(q, os)
                             /\ now' = now
                             /\ ControlReq(Req(q)) \/ conn'[q].st = "done"))

C4_Witness ==
    \E r, q \in Conns :
        /\ Pending(r)
        /\ Req(r).path = "/api/control/restart"
        /\ conn[r].armedAt < now
        /\ Answered(q)
        /\ Req(q) = [method |-> "GET", path |-> "/api/health", body |-> "none"]
        /\ Resp(q).body.timestamp = now

---------------------------------------------------------------------------

\* A GET /api/stats that reached its handler.
StatsAnswered(r) == Answered(r) /\ conn[r].os # NoOs

\* The text the uptime rule gives: the clauses, in order, with "s" exactly
\* when the count exceeds 1.
Counted(n, word) == ToString(n) \o " " \o word \o (IF n > 1 THEN "s" ELSE "")

Humanized(seconds) ==
    LET d == seconds \div 86400
        h == (seconds % 86400) \div 3600
        m == (seconds % 3600) \div 60
    IN  (IF d > 0 THEN Counted(d, "day") \o ", " ELSE "")
            \o (IF h > 0 THEN Counted(h, "hour") \o ", " ELSE "")
            \o Counted(m, "minute")

\* C5: formatUptime takes days = floor(s / 86400), hours = floor((s mod 86400)
\* / 3600), minutes = floor((s mod 3600) / 60) and returns the day clause only
\* when days > 0, the hour clause only when hours > 0 and always the minute
\* clause, each plural exactly when its count exceeds 1, so that 0 minutes
\* reads "0 minute".
C5_FormatUptime ==
    \A r \in Conns :
        StatsAnswered(r) =>
            LET s == conn[r].os.uptime
                text == Resp(r).body.uptime.system
            IN  /\ text = Humanized(s)
                /\ s < 60 => text = "0 minute"
                /\ (s >= 86400 /\ s % 3600 < 60 /\ s % 86400 < 3600)
                      => text = Counted(s \div 86400, "day") \o ", 0 minute"

C5_Witness ==
    \E r \in Conns :
        /\ StatsAnswered(r)
        /\ conn[r].os.uptime = 2 * 86400 + 23 * 3600 + 59
        /\ Resp(r).body.uptime.system = "2 days, 23 hours, 0 minute"

\* C6 as stated: humanize(125) = "2 minutes", humanize(3660) = "1 hour, 1
\* minute", humanize(90000) = "1 day, 1 hour, 0 minutes" and humanize(59) =
\* "0 minutes".
C6_FormatCases ==
    \A r \in Conns :
        StatsAnswered(r) =>
            LET s == conn[r].os.uptime
                text == Resp(r).body.uptime.system
            IN  /\ s = 125 => text = "2 minutes"
                /\ s = 3660 => text = "1 hour, 1 minute"
                /\ s = 90000 => text = "1 day, 1 hour, 0 minutes"
                /\ s = 59 => text = "0 minutes"

\* C6 as amended: humanize(125) = "2 minutes", humanize(3660) = "1 hour, 1
\* minute", humanize(90000) = "1 day, 1 hour, 0 minute" and humanize(59) =
\* "0 minute".
C6_FormatCases_Amended ==
    \A r \in Conns :
        StatsAnswered(r) =>
            LET s == conn[r].os.uptime
                text == Resp(r).body.uptime.system
            IN  /\ s = 125 => text = "2 minutes"
                /\ s = 3660 => text = "1 hour, 1 minute"
                /\ s = 90000 => text = "1 day, 1 hour, 0 minute"
                /\ s = 59 => text = "0 minute"

C6_Witness ==
    \E r \in Conns :
        /\ StatsAnswered(r)
        /\ conn[r].os.uptime = 90000
        /\ Resp(r).body.uptime.system = "1 day, 1 hour, 0 minute"

---------------------------------------------------------------------------

\* C7 as stated: memory.usage = round((1 - free/total) * 100), the
\* percentage rounded to the nearest integer, in 0..100.
C7_UsageRounded ==
    \A r \in Conns :
        StatsAnswered(r) =>
            LET total == conn[r].os.totalmem
                free == conn[r].os.freemem2
                usage == Resp(r).body.memory.usage
            IN  (total > 0 /\ 0 <= free /\ free <= total)
                    => /\ 2 * usage * total <= 200 * (total - free) + total
                       /\ 200 * (total - free) + total < 2 * (usage + 1) * total
                       /\ usage \in 0..100

\* C7 as amended: memory.usage is the percentage (1 - free/total) * 100
\* rounded down: the floor of the exact percentage, and one less than it for
\* the whole percentages that the double-precision evaluation falls just
\* short of; it lies in 0..100.
C7_UsageFloored ==
    \A r \in Conns :
        StatsAnswered(r) =>
            LET total == conn[r].os.totalmem
                free == conn[r].os.freemem2
                usage == Resp(r).body.memory.usage
            IN  (total > 0 /\ 0 <= free /\ free <= total)
                    => /\ usage \in 0..100
                       /\ usage * total <= 100 * (total - free)
                       /\ \/ 100 * (total - free) < (usage + 1) * total
                          \/ /\ 100 * (total - free) = (usage + 1) * total
                             /\ usage + 1 \in {7, 8, 9, 10, 11, 19, 20, 21, 22,
                                               32, 33, 44, 45, 66}

C7_Witness ==
    \E r \in Conns :
        /\ StatsAnswered(r)
        /\ conn[r].os.totalmem = 8 * HalfMiB
        /\ conn[r].os.freemem2 = 3 * HalfMiB
        /\ Resp(r).body.memory.usage = 62

---------------------------------------------------------------------------

Failed(r) == conn[r].err # NoError

SignalLines == { sig \o " received. Shutting down gracefully..." : sig \in {"SIGTERM", "SIGINT"} }

C9_SignalExits ==
    /\ [](~exited => (ENABLED Signal("SIGINT")) /\ (ENABLED Signal("SIGTERM")))
    /\ [](exited <=> exitCode # NoExit)
    /\ [](exited => /\ exitCode = 0
                    /\ Len(console) = Len(StartupLines) + 1
                    /\ console[Len(console)] \in SignalLines)
    /\ [][console' # console => ~exited /\ exited']_vars
    /\ [][exited => (conn' = conn /\ responses' = responses /\ timers' = timers)]_vars

C9_Witness ==
    \E r \in Conns :
        /\ exited
        /\ exitCode = 0
        /\ console[Len(console)] = "SIGTERM received. Shutting down gracefully..."
        /\ conn[r].st = "waiting"
        /\ now >= timers[r]
        /\ responses[r] = << >>

---------------------------------------------------------------------------

HealthReq(req) == req.method = "GET" /\ req.path = "/api/health"

HealthAnswer(r) ==
    /\ HealthReq(Req(r))
    /\ Len(responses[r]) = 1
    /\ Resp(r).status = 200
    /\ Resp(r).body.status = "OK"
    /\ Resp(r).body.uptime >= 0

\* Each health response reports an uptime no smaller than those of the
\* health responses sent before it.
UptimeInOrder ==
    [][ \A r, q \in Conns :
          (/\ HealthReq(Req(r)) /\ Req(r).body # "malformed"
           /\ conn[r].st = "queued" /\ Done(r)'
           /\ HealthReq(Req(q)) /\ Req(q).body # "malformed" /\ Done(q))
              => Resp(r)'.body.uptime >= Resp(q).body.uptime
      ]_vars

\* C10 as stated: every GET /api/health in flight, in every interleaving,
\* receives exactly one response, 200 with status "OK"; the uptimes are
\* non-negative and non-decreasing in the order the requests are handled.
C10_HealthAlwaysAnswered ==
    /\ [](\A r \in Conns : (HealthReq(Req(r)) /\ Done(r)) => HealthAnswer(r))
    /\ UptimeInOrder
    /\ \A r \in Conns :
          (conn[r].st = "queued" /\ HealthReq(Req(r))) ~> (Done(r) /\ HealthAnswer(r))

\* C10 as amended: the same for every GET /api/health that carries no body
\* the parsers reject, unless the process is terminated by SIGINT or SIGTERM
\* before the request is handled.
C10_HealthAnsweredUnlessExit ==
    /\ [](\A r \in Conns :
             (HealthReq(Req(r)) /\ Req(r).body # "malformed")
                 => /\ conn[r].st = "queued" => responses[r] = << >>
                    /\ Done(r) => HealthAnswer(r))
    /\ UptimeInOrder
    /\ \A r \in Conns :
          (conn[r].st = "queued" /\ HealthReq(Req(r)) /\ Req(r).body # "malformed")
              ~> ((Done(r) /\ HealthAnswer(r)) \/ exited)

C10_Witness ==
    \E r, q \in Conns :
        /\ HealthAnswer(r) /\ Done(r)
        /\ HealthAnswer(q) /\ Done(q)
        /\ Resp(r).body.uptime = 0
        /\ Resp(q).body.uptime = 2 * TickMs
        /\ ~exited

====
